---------------------------- MODULE Spec2Model ----------------------------
(***************************************************************************)
(* A model of rusty-snake's per-frame callback game_logic (src/src/lib.rs) *)
(* and of the pure functions it uses.                                      *)
(*                                                                         *)
(* Units.  Durations are in milliseconds (the source gives seconds as f32: *)
(* 0.1 s is 100, 5.0 s is 5000).  Coordinates, speeds and scales are exact *)
(* rationals <<numerator, denominator>>; the source computes them in f32,  *)
(* and every comparison the model makes is on values f32 represents        *)
(* exactly unless a bounce has divided them.                               *)
(*                                                                         *)
(* Labels.  The source names sprites by strings built with format!; the    *)
(* model keeps the prefix and the numbers apart: <<"player-head", 0>> is   *)
(* "player-head0", <<"player-tail", 0, 3>> is "player-tail0.3",            *)
(* <<"pill", 2>> is "pill2" and <<"obstacle", 1>> is "obstacle1".          *)
(* starts_with(p) is a test of the first component.                        *)
(***************************************************************************)
EXTENDS Integers, Sequences, FiniteSets, TLC

(***************************************************************************)
(* Program constants.                                                      *)
(***************************************************************************)
MAX_NR_PLAYERS == 4
PLAYER_MOVE_TIMER_START == 100
PLAYER_LOOSE_TIMEOUT == 5000
PLAYER_MOVE_DISTANCE == 10
PLAYER_STARTING_MAX_LEN == 4
PILL_SPAWN_INTERVAL == 3000
OBSTACLE_MOVE_INTERVAL == 100
OBSTACLE_SPAWN_INTERVAL == 6000

Players == 0 .. (MAX_NR_PLAYERS - 1)

PLAYER_CONTROL ==
    [p \in Players |->
        CASE p = 0 -> <<"Q", "W">>
          [] p = 1 -> <<"F", "G">>
          [] p = 2 -> <<"U", "I">>
          [] OTHER -> <<"K", "L">>]

Direction == {"UP", "RIGHT", "DOWN", "LEFT"}
PlayerState == {"WAITING", "PLAYING", "LOST"}

(***************************************************************************)
(* Bounds of the exploration (not program constants).                      *)
(***************************************************************************)
\* frames explored
MaxTicks == 7
\* the frames of any length that may bring collision events: later frames last
\* one move interval and bring none
MaxInputTicks == 3
\* the frames in which keys may be pressed
MaxKeyTicks == 4
\* frames in which some key is just pressed
MaxPresses == 2
\* pills spawned
MaxPills == 2
\* collision events delivered in one frame
MaxBatch == 2
\* collision events delivered over the whole run
MaxEvents == 2

(***************************************************************************)
(* Exact rational arithmetic for f32 values.                               *)
(***************************************************************************)
Abs(i) == IF i < 0 THEN -i ELSE i

RECURSIVE Gcd(_, _)
Gcd(a, b) == IF b = 0 THEN a ELSE Gcd(b, a % b)

\* the normal form of n/d (d # 0): positive denominator, lowest terms
Rat(n, d) ==
    LET g == Gcd(Abs(n), Abs(d))
        s == IF d < 0 THEN -1 ELSE 1
    IN  <<(s * n) \div g, (s * d) \div g>>

R(i) == <<i, 1>>
RAdd(a, b) == Rat(a[1] * b[2] + b[1] * a[2], a[2] * b[2])
RSub(a, b) == Rat(a[1] * b[2] - b[1] * a[2], a[2] * b[2])
RMul(a, b) == Rat(a[1] * b[1], a[2] * b[2])
RDiv(a, b) == Rat(a[1] * b[2], a[2] * b[1])
RNeg(a) == <<-a[1], a[2]>>
RLt(a, b) == a[1] * b[2] < b[1] * a[2]
RLe(a, b) == a[1] * b[2] <= b[1] * a[2]
RAbs(a) == <<Abs(a[1]), a[2]>>

Vec2(x, y) == [x |-> x, y |-> y]


(***************************************************************************)
(* Labels: format!("player-head{}", i) and the like.                       *)
(***************************************************************************)
head_label(i) == <<"player-head", i>>
score_label(i) == <<"player-score", i>>
tail_label(i, serial) == <<"player-tail", i, serial>>
pill_label(n) == <<"pill", n>>
obstacle_label(n) == <<"obstacle", n>>

starts_with(label, prefix) == label[1] = prefix

\* CollisionPair::one_starts_with
one_starts_with(pair, prefix) ==
    starts_with(pair[1], prefix) \/ starts_with(pair[2], prefix)

(***************************************************************************)
(* Timer (bevy): a duration, whether it repeats, and the time elapsed.  A  *)
(* one-shot timer is finished when its elapsed time has reached its        *)
(* duration, and stays there.                                              *)
(***************************************************************************)
Timer_from_seconds(duration, repeating) ==
    [duration |-> duration, repeating |-> repeating, elapsed |-> 0]

Timer_finished(t) == (~t.repeating) /\ t.elapsed >= t.duration

\* timer.tick(delta).just_finished()
just_finished(t, delta) ==
    (~Timer_finished(t)) /\ t.elapsed + delta >= t.duration

\* the timer after timer.tick(delta)
Timer_tick(t, delta) ==
    IF Timer_finished(t) THEN t
    ELSE IF t.elapsed + delta >= t.duration
         THEN [t EXCEPT !.elapsed = IF t.repeating
                                    THEN (t.elapsed + delta) % t.duration
                                    ELSE t.duration]
         ELSE [t EXCEPT !.elapsed = t.elapsed + delta]

(***************************************************************************)
(* Player.                                                                 *)
(***************************************************************************)
starting_direction(i) == "RIGHT"
starting_position(i) == Vec2(R(i * 50), R(i * 50))

Player_new(instance) ==
    [labels |-> <<>>,
     max_len |-> PLAYER_STARTING_MAX_LEN,
     serial |-> 0,
     direction |-> "RIGHT",
     state |-> "WAITING",
     loose_timeout |-> Timer_from_seconds(PLAYER_LOOSE_TIMEOUT, FALSE)]

lost(player) == [player EXCEPT !.state = "LOST"]
is_playing(player) == player.state = "PLAYING"
is_waiting(player) == player.state = "WAITING"
has_lost(player) == player.state = "LOST"

\* deactivate without its second line: max_len is left as the game made it.
deactivate_keeps_max_len(player, i) ==
    [player EXCEPT !.labels = <<>>,
                   !.serial = 0,
                   !.direction = starting_direction(i),
                   !.state = "WAITING",
                   !.loose_timeout = Timer_from_seconds(PLAYER_LOOSE_TIMEOUT, FALSE)]

deactivate(player, i) ==
    [player EXCEPT !.labels = <<>>,
                   !.max_len = PLAYER_STARTING_MAX_LEN,
                   !.serial = 0,
                   !.direction = starting_direction(i),
                   !.state = "WAITING",
                   !.loose_timeout = Timer_from_seconds(PLAYER_LOOSE_TIMEOUT, FALSE)]

activate(player) == [player EXCEPT !.state = "PLAYING"]

(***************************************************************************)
(* Directions and positions.                                               *)
(***************************************************************************)
\* new_direction with the two results of its DOWN row exchanged.
new_direction_down_swapped(curr_dir, turn_left) ==
    CASE curr_dir = "UP"    -> IF turn_left THEN "LEFT" ELSE "RIGHT"
      [] curr_dir = "RIGHT" -> IF turn_left THEN "UP" ELSE "DOWN"
      [] curr_dir = "DOWN"  -> IF turn_left THEN "LEFT" ELSE "RIGHT"
      [] curr_dir = "LEFT"  -> IF turn_left THEN "DOWN" ELSE "UP"

new_direction(curr_dir, turn_left) ==
    CASE curr_dir = "UP"    -> IF turn_left THEN "LEFT" ELSE "RIGHT"
      [] curr_dir = "RIGHT" -> IF turn_left THEN "UP" ELSE "DOWN"
      [] curr_dir = "DOWN"  -> IF turn_left THEN "RIGHT" ELSE "LEFT"
      [] curr_dir = "LEFT"  -> IF turn_left THEN "DOWN" ELSE "UP"

\* new_position without the two tests against the lower edges (lines 305-307
\* and 311-313).
new_position_no_lower_wrap(window_dimensions, pos, dir, speed) ==
    LET moved == CASE dir = "UP"    -> Vec2(pos.x, RAdd(pos.y, speed))
                   [] dir = "RIGHT" -> Vec2(RAdd(pos.x, speed), pos.y)
                   [] dir = "DOWN"  -> Vec2(pos.x, RSub(pos.y, speed))
                   [] dir = "LEFT"  -> Vec2(RSub(pos.x, speed), pos.y)
        max_x == RDiv(window_dimensions.x, R(2))
        max_y == RDiv(window_dimensions.y, R(2))
        x1 == IF RLt(max_x, moved.x) THEN RNeg(max_x) ELSE moved.x
        y1 == IF RLt(max_y, moved.y) THEN RNeg(max_y) ELSE moved.y
    IN  Vec2(x1, y1)

new_position(window_dimensions, pos, dir, speed) ==
    LET moved == CASE dir = "UP"    -> Vec2(pos.x, RAdd(pos.y, speed))
                   [] dir = "RIGHT" -> Vec2(RAdd(pos.x, speed), pos.y)
                   [] dir = "DOWN"  -> Vec2(pos.x, RSub(pos.y, speed))
                   [] dir = "LEFT"  -> Vec2(RSub(pos.x, speed), pos.y)
        max_x == RDiv(window_dimensions.x, R(2))
        max_y == RDiv(window_dimensions.y, R(2))
        x1 == IF RLt(max_x, moved.x) THEN RNeg(max_x) ELSE moved.x
        x2 == IF RLt(x1, RNeg(max_x)) THEN max_x ELSE x1
        y1 == IF RLt(max_y, moved.y) THEN RNeg(max_y) ELSE moved.y
        y2 == IF RLt(y1, RNeg(max_y)) THEN max_y ELSE y1
    IN  Vec2(x2, y2)

(***************************************************************************)
(* Obstacle.  An obstacle is [label, speed]; its position and its scale    *)
(* (its mass) are its sprite's.                                            *)
(***************************************************************************)
Obstacle_MIN_SCALE == <<1, 5>>
Obstacle_MAX_SCALE == <<6, 5>>

\* The translation do_move gives the obstacle's sprite.
do_move(self, window_dimensions, translation) ==
    LET max_x == RDiv(window_dimensions.x, R(2))
        max_y == RDiv(window_dimensions.y, R(2))
        nx == RAdd(translation.x, self.speed.x)
        ny == RAdd(translation.y, self.speed.y)
        x1 == IF RLt(max_x, nx) THEN RNeg(max_x) ELSE nx
        x2 == IF RLt(x1, RNeg(max_x)) THEN max_x ELSE x1
        y1 == IF RLt(max_y, ny) THEN RNeg(max_y) ELSE ny
        y2 == IF RLt(y1, RNeg(max_y)) THEN max_y ELSE y1
    IN  Vec2(x2, y2)

\* bounce with the two new speeds along the line of centres given to the wrong
\* obstacles: self takes vu1 and other takes vu3.
bounce_speeds_exchanged(self, other, self_sprite, other_sprite) ==
    LET x == RSub(self_sprite.translation.x, other_sprite.translation.x)
        y == RSub(self_sprite.translation.y, other_sprite.translation.y)
        d == RAdd(RMul(x, x), RMul(y, y))
        u1 == RDiv(RAdd(RMul(self.speed.x, x), RMul(self.speed.y, y)), d)
        u2 == RDiv(RSub(RMul(x, self.speed.y), RMul(y, self.speed.x)), d)
        u3 == RDiv(RAdd(RMul(other.speed.x, x), RMul(other.speed.y, y)), d)
        u4 == RDiv(RSub(RMul(x, other.speed.y), RMul(y, other.speed.x)), d)
        mm == RAdd(self_sprite.scale, other_sprite.scale)
        vu3 == RAdd(RMul(RDiv(RSub(self_sprite.scale, other_sprite.scale), mm), u1),
                    RMul(RDiv(RMul(R(2), other_sprite.scale), mm), u3))
        vu1 == RAdd(RMul(RDiv(RSub(other_sprite.scale, self_sprite.scale), mm), u3),
                    RMul(RDiv(RMul(R(2), self_sprite.scale), mm), u1))
    IN  <<Vec2(RSub(RMul(x, vu1), RMul(y, u2)), RAdd(RMul(y, vu1), RMul(x, u2))),
          Vec2(RSub(RMul(x, vu3), RMul(y, u4)), RAdd(RMul(y, vu3), RMul(x, u4)))>>

\* The speeds <<self.speed, other.speed>> after self.bounce(other, ...).
bounce(self, other, self_sprite, other_sprite) ==
    LET x == RSub(self_sprite.translation.x, other_sprite.translation.x)
        y == RSub(self_sprite.translation.y, other_sprite.translation.y)
        d == RAdd(RMul(x, x), RMul(y, y))
        u1 == RDiv(RAdd(RMul(self.speed.x, x), RMul(self.speed.y, y)), d)
        u2 == RDiv(RSub(RMul(x, self.speed.y), RMul(y, self.speed.x)), d)
        u3 == RDiv(RAdd(RMul(other.speed.x, x), RMul(other.speed.y, y)), d)
        u4 == RDiv(RSub(RMul(x, other.speed.y), RMul(y, other.speed.x)), d)
        mm == RAdd(self_sprite.scale, other_sprite.scale)
        vu3 == RAdd(RMul(RDiv(RSub(self_sprite.scale, other_sprite.scale), mm), u1),
                    RMul(RDiv(RMul(R(2), other_sprite.scale), mm), u3))
        vu1 == RAdd(RMul(RDiv(RSub(other_sprite.scale, self_sprite.scale), mm), u3),
                    RMul(RDiv(RMul(R(2), self_sprite.scale), mm), u1))
    IN  <<Vec2(RSub(RMul(x, vu3), RMul(y, u2)), RAdd(RMul(y, vu3), RMul(x, u2))),
          Vec2(RSub(RMul(x, vu1), RMul(y, u4)), RAdd(RMul(y, vu1), RMul(x, u4)))>>

(***************************************************************************)
(* The state.                                                              *)
(*   state      the GameState handed to game_logic                         *)
(*   engine     the Engine fields game_logic reads and writes              *)
(*   pc         "idle" between frames, "collisions" while game_logic       *)
(*              drains engine.collision_events                             *)
(*   collidable the sprites the engine's collision detection saw for this  *)
(*              frame: the labels engine.collision_events can name         *)
(*   drained    how many events the loop has taken this frame              *)
(*   ticks, presses, nr_events   what the run has used of its bounds       *)
(*   calc       the input and result of a pure function (SpecPure)         *)
(***************************************************************************)
VARIABLES state, engine, pc, collidable, drained,
          ticks, presses, nr_events, calc

vars == <<state, engine, pc, collidable, drained,
          ticks, presses, nr_events, calc>>

EmptyMap == [l \in {} |-> 0]
NoKeys == [just_pressed |-> {}, pressed |-> {}]
NoCalc == [fn |-> "none"]

\* impl Default for GameState
GameState_default ==
    [first_iteration |-> TRUE,
     obstacles |-> <<>>,
     obstacle_serial |-> 0,
     obstacle_next_timer |-> Timer_from_seconds(OBSTACLE_SPAWN_INTERVAL, TRUE),
     obstacle_move_timer |-> Timer_from_seconds(OBSTACLE_MOVE_INTERVAL, TRUE),
     player_move_timer |-> Timer_from_seconds(PLAYER_MOVE_TIMER_START, FALSE),
     pill_timer |-> Timer_from_seconds(PILL_SPAWN_INTERVAL, TRUE),
     pill_idx |-> 0,
     player |-> [i \in Players |-> Player_new(i)]]

\* engine.window_dimensions: the window the engine reports, here 100 by 100
WindowDimensions == Vec2(R(100), R(100))

\* The engine before the first frame: a window, no sprite, no text.
Engine_new ==
    [window_dimensions |-> WindowDimensions,
     delta |-> 0,
     keyboard_state |-> NoKeys,
     sprites |-> EmptyMap,
     texts |-> EmptyMap]

\* Engine::add_sprite: a sprite at the origin, scale 1, not collidable.
Sprite_new == [translation |-> Vec2(R(0), R(0)), collision |-> FALSE, scale |-> R(1)]

Put(map, key, value) == [k \in DOMAIN map \cup {key} |-> IF k = key THEN value ELSE map[k]]
Remove(map, key) == [k \in DOMAIN map \ {key} |-> map[k]]
RemoveAll(map, keys) == [k \in DOMAIN map \ keys |-> map[k]]
Range(seq) == {seq[i] : i \in DOMAIN seq}

(***************************************************************************)
(* What thread_rng().gen_range(a..b) draws in one frame: the interval to   *)
(* the next obstacle, the new obstacle's scale, speed and place, and the   *)
(* new pill's place.  Two samples of the generator's output, each value    *)
(* within the half-open range its call names (the filter).                 *)
(***************************************************************************)
\* a <= v < b
InRange(v, a, b) == RLe(a, v) /\ RLt(v, b)

RngSamples ==
    LET x == RDiv(WindowDimensions.x, R(2))
        y == RDiv(WindowDimensions.y, R(2))
    IN  {r \in {[interval |-> 2000,
                 obstacle |-> [scale |-> <<1, 2>>, speed |-> Vec2(R(3), R(-1)),
                               translation |-> Vec2(R(-10), R(0))],
                 pill |-> Vec2(RNeg(RAdd(x, R(20))), RNeg(RAdd(y, R(20))))],
                [interval |-> 2000,
                 obstacle |-> [scale |-> R(1), speed |-> Vec2(R(-1), R(1)),
                               translation |-> Vec2(R(10), R(10))],
                 pill |-> Vec2(R(20), R(0))]} :
            \* line 339: gen_range(2.0..10.0) seconds
            /\ 2000 <= r.interval /\ r.interval < 10000
            \* line 155: gen_range(MIN_SCALE..MAX_SCALE)
            /\ InRange(r.obstacle.scale, Obstacle_MIN_SCALE, Obstacle_MAX_SCALE)
            \* lines 159-160: gen_range(-(2.0/scale)..(2.0/scale))
            /\ InRange(r.obstacle.speed.x, RNeg(RDiv(R(2), r.obstacle.scale)),
                       RDiv(R(2), r.obstacle.scale))
            /\ InRange(r.obstacle.speed.y, RNeg(RDiv(R(2), r.obstacle.scale)),
                       RDiv(R(2), r.obstacle.scale))
            \* line 166: gen_range((-x + 20.0)..(x - 20.0)), and y alike
            /\ InRange(r.obstacle.translation.x, RAdd(RNeg(x), R(20)), RSub(x, R(20)))
            /\ InRange(r.obstacle.translation.y, RAdd(RNeg(y), R(20)), RSub(y, R(20)))
            \* lines 350-351: gen_range(-(x+20.0)..(x-20.0)), and y alike
            /\ InRange(r.pill.x, RNeg(RAdd(x, R(20))), RSub(x, R(20)))
            /\ InRange(r.pill.y, RNeg(RAdd(y, R(20))), RSub(y, R(20)))}

(***************************************************************************)
(* game_logic, in the order of its source.  Each part maps g, the record   *)
(* [state, engine], to the g it leaves.                                    *)
(***************************************************************************)
\* lines 318-327
FirstIteration(g) == [g EXCEPT !.state.first_iteration = FALSE]

\* lines 332-336: the obstacles move when their timer fires
ObstaclesMove(g) ==
    LET fired == just_finished(g.state.obstacle_move_timer, g.engine.delta)
        obs == g.state.obstacles
        moved == [l \in DOMAIN g.engine.sprites |->
                    IF \E i \in DOMAIN obs : obs[i].label = l
                    THEN LET i == CHOOSE i \in DOMAIN obs : obs[i].label = l
                         IN  [g.engine.sprites[l] EXCEPT
                                !.translation = do_move(obs[i], g.engine.window_dimensions, @)]
                    ELSE g.engine.sprites[l]]
    IN  [g EXCEPT !.state.obstacle_move_timer = Timer_tick(@, g.engine.delta),
                  !.engine.sprites = IF fired THEN moved ELSE @]

\* Obstacle::new: the obstacle and its sprite, for what the generator drew
Obstacle_new(idx, drawn) ==
    [obstacle |-> [label |-> obstacle_label(idx), speed |-> drawn.speed],
     sprite |-> [translation |-> drawn.translation, collision |-> TRUE,
                 scale |-> drawn.scale]]

\* lines 338-342: one more obstacle when its timer fires
ObstacleSpawn(g, interval, drawn) ==
    LET fired == just_finished(g.state.obstacle_next_timer, g.engine.delta)
        new == Obstacle_new(g.state.obstacle_serial, drawn)
    IN  IF fired
        THEN [g EXCEPT !.state.obstacle_next_timer = Timer_from_seconds(interval, FALSE),
                       !.state.obstacles = Append(@, new.obstacle),
                       !.state.obstacle_serial = @ + 1,
                       !.engine.sprites = Put(@, new.obstacle.label, new.sprite)]
        ELSE [g EXCEPT !.state.obstacle_next_timer = Timer_tick(@, g.engine.delta)]

\* lines 345-353: one more pill when its timer fires
PillSpawn(g, place) ==
    LET fired == just_finished(g.state.pill_timer, g.engine.delta)
        label == pill_label(g.state.pill_idx)
    IN  IF fired
        THEN [g EXCEPT !.state.pill_timer = Timer_tick(@, g.engine.delta),
                       !.state.pill_idx = @ + 1,
                       !.engine.sprites =
                           Put(@, label, [Sprite_new EXCEPT !.translation = place,
                                                            !.collision = TRUE])]
        ELSE [g EXCEPT !.state.pill_timer = Timer_tick(@, g.engine.delta)]

PLAYER_SCALE_TAIL == <<1, 5>>
PLAYER_SCALE_HEAD == <<3, 10>>

\* One player's move without lines 375-377: the oldest segment is never dropped.
MovePlayer_no_pop(g, idx) ==
    LET player == g.state.player[idx]
        head_old_pos == g.engine.sprites[head_label(idx)].translation
        head_new_pos == new_position(g.engine.window_dimensions, head_old_pos,
                                     player.direction, R(PLAYER_MOVE_DISTANCE))
        tail == tail_label(idx, player.serial)
        sprites1 == [g.engine.sprites EXCEPT ![head_label(idx)].translation = head_new_pos]
        sprites2 == Put(sprites1, tail, [translation |-> head_old_pos, collision |-> TRUE,
                                         scale |-> PLAYER_SCALE_TAIL])
    IN  IF ~is_playing(player) THEN g
        ELSE [g EXCEPT
                !.state.player[idx].serial = @ + 1,
                !.state.player[idx].labels = <<tail>> \o player.labels,
                !.engine.sprites = sprites2]

\* One player's move with the oldest label popped but its sprite left in
\* engine.sprites (line 376 without the remove).
MovePlayer_orphans_oldest(g, idx) ==
    LET player == g.state.player[idx]
        head_old_pos == g.engine.sprites[head_label(idx)].translation
        head_new_pos == new_position(g.engine.window_dimensions, head_old_pos,
                                     player.direction, R(PLAYER_MOVE_DISTANCE))
        tail == tail_label(idx, player.serial)
        pushed == <<tail>> \o player.labels
        over == Len(pushed) > player.max_len
        sprites1 == [g.engine.sprites EXCEPT ![head_label(idx)].translation = head_new_pos]
        sprites2 == Put(sprites1, tail, [translation |-> head_old_pos, collision |-> TRUE,
                                         scale |-> PLAYER_SCALE_TAIL])
    IN  IF ~is_playing(player) THEN g
        ELSE [g EXCEPT
                !.state.player[idx].serial = @ + 1,
                !.state.player[idx].labels =
                    IF over THEN SubSeq(pushed, 1, Len(pushed) - 1) ELSE pushed,
                !.engine.sprites = sprites2]

\* lines 360-378: one player's move
\* One player's move with the new segment placed where the head arrives.
MovePlayer_tail_at_new_pos(g, idx) ==
    LET player == g.state.player[idx]
        head_old_pos == g.engine.sprites[head_label(idx)].translation
        head_new_pos == new_position(g.engine.window_dimensions, head_old_pos,
                                     player.direction, R(PLAYER_MOVE_DISTANCE))
        tail == tail_label(idx, player.serial)
        pushed == <<tail>> \o player.labels
        over == Len(pushed) > player.max_len
        sprites1 == [g.engine.sprites EXCEPT ![head_label(idx)].translation = head_new_pos]
        sprites2 == Put(sprites1, tail, [translation |-> head_new_pos, collision |-> TRUE,
                                         scale |-> PLAYER_SCALE_TAIL])
    IN  IF ~is_playing(player) THEN g
        ELSE [g EXCEPT
                !.state.player[idx].serial = @ + 1,
                !.state.player[idx].labels =
                    IF over THEN SubSeq(pushed, 1, Len(pushed) - 1) ELSE pushed,
                !.engine.sprites =
                    IF over THEN Remove(sprites2, pushed[Len(pushed)]) ELSE sprites2]

MovePlayer(g, idx) ==
    LET player == g.state.player[idx]
        head_old_pos == g.engine.sprites[head_label(idx)].translation
        head_new_pos == new_position(g.engine.window_dimensions, head_old_pos,
                                     player.direction, R(PLAYER_MOVE_DISTANCE))
        tail == tail_label(idx, player.serial)
        pushed == <<tail>> \o player.labels
        over == Len(pushed) > player.max_len
        sprites1 == [g.engine.sprites EXCEPT ![head_label(idx)].translation = head_new_pos]
        sprites2 == Put(sprites1, tail, [translation |-> head_old_pos, collision |-> TRUE,
                                         scale |-> PLAYER_SCALE_TAIL])
    IN  IF ~is_playing(player) THEN g
        ELSE [g EXCEPT
                !.state.player[idx].serial = @ + 1,
                !.state.player[idx].labels =
                    IF over THEN SubSeq(pushed, 1, Len(pushed) - 1) ELSE pushed,
                !.engine.sprites =
                    IF over THEN Remove(sprites2, pushed[Len(pushed)]) ELSE sprites2]

RECURSIVE MovePlayersFrom(_, _)
MovePlayersFrom(g, idx) ==
    IF idx = MAX_NR_PLAYERS THEN g ELSE MovePlayersFrom(MovePlayer(g, idx), idx + 1)

\* lines 356-380: the players move when their timer fires
PlayersMove(g) ==
    LET fired == just_finished(g.state.player_move_timer, g.engine.delta)
    IN  IF fired
        THEN MovePlayersFrom(
                [g EXCEPT !.state.player_move_timer =
                              Timer_from_seconds(PLAYER_MOVE_TIMER_START, FALSE)], 0)
        ELSE [g EXCEPT !.state.player_move_timer = Timer_tick(@, g.engine.delta)]

\* KeyboardState::just_pressed_any and ::pressed
just_pressed_any(keyboard_state, keys) ==
    \E i \in DOMAIN keys : keys[i] \in keyboard_state.just_pressed
pressed(keyboard_state, key) == key \in keyboard_state.pressed

\* One player's keys with the turn decided by whether the left key is just
\* pressed, not by whether it is pressed.
KeysOfPlayer_just_pressed_left(g, idx) ==
    LET player == g.state.player[idx]
        control == PLAYER_CONTROL[idx]
    IN  IF ~just_pressed_any(g.engine.keyboard_state, control) THEN g
        ELSE IF is_playing(player)
        THEN [g EXCEPT !.state.player[idx].direction =
                 new_direction(@, control[1] \in g.engine.keyboard_state.just_pressed)]
        ELSE IF is_waiting(player)
        THEN [g EXCEPT
                !.state.player[idx] = activate(@),
                !.engine.texts = Remove(@, score_label(idx)),
                !.engine.sprites =
                    Put(@, head_label(idx), [translation |-> starting_position(idx),
                                             collision |-> TRUE,
                                             scale |-> PLAYER_SCALE_HEAD])]
        ELSE g

\* One player's keys without line 389: the player's old score stays on display.
KeysOfPlayer_keeps_score(g, idx) ==
    LET player == g.state.player[idx]
        control == PLAYER_CONTROL[idx]
    IN  IF ~just_pressed_any(g.engine.keyboard_state, control) THEN g
        ELSE IF is_playing(player)
        THEN [g EXCEPT !.state.player[idx].direction =
                 new_direction(@, pressed(g.engine.keyboard_state, control[1]))]
        ELSE IF is_waiting(player)
        THEN [g EXCEPT
                !.state.player[idx] = activate(@),
                !.engine.sprites =
                    Put(@, head_label(idx), [translation |-> starting_position(idx),
                                             collision |-> TRUE,
                                             scale |-> PLAYER_SCALE_HEAD])]
        ELSE g

\* lines 384-395: one player's keys
KeysOfPlayer(g, idx) ==
    LET player == g.state.player[idx]
        control == PLAYER_CONTROL[idx]
    IN  IF ~just_pressed_any(g.engine.keyboard_state, control) THEN g
        ELSE IF is_playing(player)
        THEN [g EXCEPT !.state.player[idx].direction =
                 new_direction(@, pressed(g.engine.keyboard_state, control[1]))]
        ELSE IF is_waiting(player)
        THEN [g EXCEPT
                !.state.player[idx] = activate(@),
                !.engine.texts = Remove(@, score_label(idx)),
                !.engine.sprites =
                    Put(@, head_label(idx), [translation |-> starting_position(idx),
                                             collision |-> TRUE,
                                             scale |-> PLAYER_SCALE_HEAD])]
        ELSE g

RECURSIVE KeysFrom(_, _)
KeysFrom(g, idx) ==
    IF idx = MAX_NR_PLAYERS THEN g ELSE KeysFrom(KeysOfPlayer(g, idx), idx + 1)

\* lines 383-396
KeyPresses(g) == KeysFrom(g, 0)

\* the text of format!("Player {}: {} points", idx, points)
ScoreText(idx, points) == <<"Player", idx, points, "points">>

\* One lost player's countdown without lines 407-409: the trail's sprites stay.
EliminatePlayer_keeps_trail(g, idx) ==
    LET player == g.state.player[idx]
        x == RDiv(g.engine.window_dimensions.x, R(2))
        y == RDiv(g.engine.window_dimensions.y, R(2))
        text == [value |-> ScoreText(idx, Len(player.labels) * 10),
                 translation |-> Vec2(RAdd(RAdd(RNeg(x), R(100)), R(idx * 100)),
                                      RSub(y, R(50))),
                 scale |-> <<2, 5>>]
    IN  IF ~has_lost(player) THEN g
        ELSE IF just_finished(player.loose_timeout, g.engine.delta)
        THEN [g EXCEPT
                !.engine.texts = Put(@, score_label(idx), text),
                !.engine.sprites = Remove(@, head_label(idx)),
                !.state.player[idx] = deactivate(@, idx)]
        ELSE [g EXCEPT !.state.player[idx].loose_timeout = Timer_tick(@, g.engine.delta)]

\* One lost player's countdown with the score text made after deactivate has
\* emptied the trail (lines 404-406 after line 410).
EliminatePlayer_scores_after_reset(g, idx) ==
    LET player == g.state.player[idx]
        x == RDiv(g.engine.window_dimensions.x, R(2))
        y == RDiv(g.engine.window_dimensions.y, R(2))
        text == [value |-> ScoreText(idx, Len(deactivate(player, idx).labels) * 10),
                 translation |-> Vec2(RAdd(RAdd(RNeg(x), R(100)), R(idx * 100)),
                                      RSub(y, R(50))),
                 scale |-> <<2, 5>>]
    IN  IF ~has_lost(player) THEN g
        ELSE IF just_finished(player.loose_timeout, g.engine.delta)
        THEN [g EXCEPT
                !.engine.texts = Put(@, score_label(idx), text),
                !.engine.sprites =
                    RemoveAll(@, {head_label(idx)} \cup Range(player.labels)),
                !.state.player[idx] = deactivate(@, idx)]
        ELSE [g EXCEPT !.state.player[idx].loose_timeout = Timer_tick(@, g.engine.delta)]

\* lines 399-412: one lost player's countdown
EliminatePlayer(g, idx) ==
    LET player == g.state.player[idx]
        x == RDiv(g.engine.window_dimensions.x, R(2))
        y == RDiv(g.engine.window_dimensions.y, R(2))
        text == [value |-> ScoreText(idx, Len(player.labels) * 10),
                 translation |-> Vec2(RAdd(RAdd(RNeg(x), R(100)), R(idx * 100)),
                                      RSub(y, R(50))),
                 scale |-> <<2, 5>>]
    IN  IF ~has_lost(player) THEN g
        ELSE IF just_finished(player.loose_timeout, g.engine.delta)
        THEN [g EXCEPT
                !.engine.texts = Put(@, score_label(idx), text),
                !.engine.sprites =
                    RemoveAll(@, {head_label(idx)} \cup Range(player.labels)),
                !.state.player[idx] = deactivate(@, idx)]
        ELSE [g EXCEPT !.state.player[idx].loose_timeout = Timer_tick(@, g.engine.delta)]

RECURSIVE EliminateFrom(_, _)
EliminateFrom(g, idx) ==
    IF idx = MAX_NR_PLAYERS THEN g ELSE EliminateFrom(EliminatePlayer(g, idx), idx + 1)

\* lines 398-413
Eliminations(g) == EliminateFrom(g, 0)

\* game_logic up to its collision loop with the key presses (lines 383-396)
\* handled before the players move (lines 356-380).
BeforeCollisions_keys_first(g, rng) ==
    Eliminations(
      PlayersMove(
        KeyPresses(
          PillSpawn(
            ObstacleSpawn(
              ObstaclesMove(FirstIteration(g)), rng.interval, rng.obstacle), rng.pill))))

\* lines 318-413: game_logic up to its collision loop
BeforeCollisions(g, rng) ==
    Eliminations(
      KeyPresses(
        PlayersMove(
          PillSpawn(
            ObstacleSpawn(
              ObstaclesMove(FirstIteration(g)), rng.interval, rng.obstacle), rng.pill))))

\* The player eats the pill, without line 439: the pill's sprite stays.
EatPill_keeps_pill(g, idx, colliding_with_label) ==
    [g EXCEPT !.state.player[idx].max_len = @ + 1]

\* lines 438-440: the player eats the pill
EatPill(g, idx, colliding_with_label) ==
    [g EXCEPT !.state.player[idx].max_len = @ + 1,
              !.engine.sprites = Remove(@, colliding_with_label)]

\* The body of the collision loop with a bounce that also moves the first
\* obstacle by its new speed.
HandleEvent_bounce_separates(g, ev) ==
    LET pair == ev.pair
        player_label == IF starts_with(pair[1], "player-head") THEN pair[1] ELSE pair[2]
        colliding_with_label ==
            IF starts_with(pair[1], "player-head") THEN pair[2] ELSE pair[1]
        \* the digit after "player-head"
        idx == player_label[2]
        obs == g.state.obstacles
        found1 == {i \in DOMAIN obs : obs[i].label = pair[1]}
        found2 == {i \in DOMAIN obs : obs[i].label # pair[1] /\ obs[i].label = pair[2]}
    IN  IF ev.state = "End" THEN g
        ELSE IF one_starts_with(pair, "player-head")
        THEN IF starts_with(colliding_with_label, "pill")
             THEN EatPill(g, idx, colliding_with_label)
             ELSE [g EXCEPT !.state.player[idx] = lost(@)]
        ELSE IF starts_with(pair[1], "obstacle") /\ starts_with(pair[2], "obstacle")
        THEN IF found1 # {} /\ found2 # {}
             THEN LET i1 == CHOOSE i \in found1 : TRUE
                      i2 == CHOOSE i \in found2 : TRUE
                      speeds == bounce(obs[i1], obs[i2],
                                       g.engine.sprites[obs[i1].label],
                                       g.engine.sprites[obs[i2].label])
                      at == g.engine.sprites[obs[i1].label].translation
                  IN  [g EXCEPT !.state.obstacles[i1].speed = speeds[1],
                                !.state.obstacles[i2].speed = speeds[2],
                                !.engine.sprites[obs[i1].label].translation =
                                    Vec2(RAdd(at.x, speeds[1].x), RAdd(at.y, speeds[1].y))]
             ELSE g
        ELSE g

\* The body of the collision loop without lines 417-419: an End event is
\* handled as a Begin event is.
HandleEvent_handles_end(g, ev) ==
    LET pair == ev.pair
        player_label == IF starts_with(pair[1], "player-head") THEN pair[1] ELSE pair[2]
        colliding_with_label ==
            IF starts_with(pair[1], "player-head") THEN pair[2] ELSE pair[1]
        \* the digit after "player-head"
        idx == player_label[2]
        obs == g.state.obstacles
        found1 == {i \in DOMAIN obs : obs[i].label = pair[1]}
        found2 == {i \in DOMAIN obs : obs[i].label # pair[1] /\ obs[i].label = pair[2]}
    IN  IF one_starts_with(pair, "player-head")
        THEN IF starts_with(colliding_with_label, "pill")
             THEN EatPill(g, idx, colliding_with_label)
             ELSE [g EXCEPT !.state.player[idx] = lost(@)]
        ELSE IF starts_with(pair[1], "obstacle") /\ starts_with(pair[2], "obstacle")
        THEN IF found1 # {} /\ found2 # {}
             THEN LET i1 == CHOOSE i \in found1 : TRUE
                      i2 == CHOOSE i \in found2 : TRUE
                      speeds == bounce(obs[i1], obs[i2],
                                       g.engine.sprites[obs[i1].label],
                                       g.engine.sprites[obs[i2].label])
                  IN  [g EXCEPT !.state.obstacles[i1].speed = speeds[1],
                                !.state.obstacles[i2].speed = speeds[2]]
             ELSE g
        ELSE g

\* lines 417-464: the body of the collision loop for one event
HandleEvent(g, ev) ==
    LET pair == ev.pair
        player_label == IF starts_with(pair[1], "player-head") THEN pair[1] ELSE pair[2]
        colliding_with_label ==
            IF starts_with(pair[1], "player-head") THEN pair[2] ELSE pair[1]
        \* the digit after "player-head"
        idx == player_label[2]
        obs == g.state.obstacles
        found1 == {i \in DOMAIN obs : obs[i].label = pair[1]}
        found2 == {i \in DOMAIN obs : obs[i].label # pair[1] /\ obs[i].label = pair[2]}
    IN  IF ev.state = "End" THEN g
        ELSE IF one_starts_with(pair, "player-head")
        THEN IF starts_with(colliding_with_label, "pill")
             THEN EatPill(g, idx, colliding_with_label)
             ELSE [g EXCEPT !.state.player[idx] = lost(@)]
        ELSE IF starts_with(pair[1], "obstacle") /\ starts_with(pair[2], "obstacle")
        THEN IF found1 # {} /\ found2 # {}
             THEN LET i1 == CHOOSE i \in found1 : TRUE
                      i2 == CHOOSE i \in found2 : TRUE
                      speeds == bounce(obs[i1], obs[i2],
                                       g.engine.sprites[obs[i1].label],
                                       g.engine.sprites[obs[i2].label])
                  IN  [g EXCEPT !.state.obstacles[i1].speed = speeds[1],
                                !.state.obstacles[i2].speed = speeds[2]]
             ELSE g
        ELSE g

(***************************************************************************)
(* The engine's side: what a frame hands to game_logic.                    *)
(***************************************************************************)
\* engine.delta: a frame shorter than the move interval, one as long, a long one
DeltaSamples == {50, 100, 6000}

\* engine.keyboard_state: no key; player 0's left key just pressed; its right
\* key just pressed; its right key just pressed while its left key is held;
\* both its keys just pressed; player 1's left key just pressed.  The keys of
\* players 2 and 3 are not touched.
KeyboardSamples ==
    {NoKeys,
     [just_pressed |-> {"Q"}, pressed |-> {"Q"}],
     [just_pressed |-> {"W"}, pressed |-> {"W"}],
     [just_pressed |-> {"W"}, pressed |-> {"Q", "W"}],
     [just_pressed |-> {"Q", "W"}, pressed |-> {"Q", "W"}],
     [just_pressed |-> {"F"}, pressed |-> {"F"}]}

\* The sprites collision events are drawn from: every head and obstacle, each
\* player's newest trail segment and the newest pill, as they are when the frame
\* begins (the engine detects collisions before it calls game_logic).
EventLabels ==
    {l \in DOMAIN engine.sprites :
        /\ engine.sprites[l].collision
        /\ starts_with(l, "player-tail") =>
              \E p \in Players : state.player[p].labels # <<>>
                                 /\ state.player[p].labels[1] = l
        /\ starts_with(l, "pill") =>
              \A m \in DOMAIN engine.sprites : starts_with(m, "pill") => m[2] <= l[2]}

\* A collision event: CollisionState::Begin or ::End, and the pair of labels.
CollisionEvents(labels) ==
    {ev \in [state : {"Begin", "End"}, pair : labels \X labels] :
        ev.pair[1] # ev.pair[2]}

\* The bounce divides by the squared distance of the two obstacles: an event
\* for two obstacles at one place is not delivered.
Deliverable(ev) ==
    (/\ ev.state = "Begin"
     /\ starts_with(ev.pair[1], "obstacle")
     /\ starts_with(ev.pair[2], "obstacle"))
    => engine.sprites[ev.pair[1]].translation # engine.sprites[ev.pair[2]].translation

(***************************************************************************)
(* The actions.  A frame is game_logic up to its collision loop, then one  *)
(* step for each event the loop drains, then the return.                   *)
(***************************************************************************)
Init ==
    /\ state = GameState_default
    /\ engine = Engine_new
    /\ pc = "idle"
    /\ collidable = {}
    /\ drained = 0
    /\ ticks = 0
    /\ presses = 0
    /\ nr_events = 0
    /\ calc = NoCalc

\* game_logic from its entry to its collision loop (lines 318-413), for the
\* frame's delta and keyboard and for what the random generator draws.  The
\* delta and the keyboard are not read after line 403 and are not kept.
GameLogicWith(delta, keys, rng) ==
    /\ pc = "idle"
    /\ ticks < MaxTicks
    /\ ticks >= MaxInputTicks => delta = PLAYER_MOVE_TIMER_START
    /\ ticks >= MaxKeyTicks => keys = NoKeys
    /\ just_finished(state.pill_timer, delta) => state.pill_idx < MaxPills
    /\ keys.just_pressed # {} => presses < MaxPresses
    /\ presses' = IF keys.just_pressed # {} THEN presses + 1 ELSE presses
    /\ LET g == [state |-> state,
                 engine |-> [engine EXCEPT !.delta = delta, !.keyboard_state = keys]]
           h == BeforeCollisions(g, rng)
       IN  /\ state' = h.state
           /\ engine' = [h.engine EXCEPT !.delta = 0, !.keyboard_state = NoKeys]
    /\ collidable' = EventLabels
    /\ ticks' = ticks + 1
    /\ pc' = "collisions"
    /\ UNCHANGED <<drained, nr_events, calc>>

\* What the generator can draw in a frame of that delta: nothing is drawn when
\* neither spawn timer fires, and one sample then stands for all.
Draws(delta) ==
    IF \/ just_finished(state.obstacle_next_timer, delta)
       \/ just_finished(state.pill_timer, delta)
    THEN RngSamples
    ELSE {CHOOSE r \in RngSamples : TRUE}

GameLogic ==
    /\ pc = "idle"
    /\ \E delta \in DeltaSamples :
         \E rng \in Draws(delta), keys \in KeyboardSamples :
             GameLogicWith(delta, keys, rng)

\* One turn of the loop over engine.collision_events.drain(..) (lines 416-465),
\* for the event it takes.
HandleCollisionOf(ev) ==
    /\ pc = "collisions"
    /\ ticks <= MaxInputTicks
    /\ drained < MaxBatch
    /\ nr_events < MaxEvents
    /\ ev \in CollisionEvents(collidable)
    /\ Deliverable(ev)
    /\ LET h == HandleEvent([state |-> state, engine |-> engine], ev)
       IN  /\ state' = h.state
           /\ engine' = h.engine
    /\ drained' = drained + 1
    /\ nr_events' = nr_events + 1
    /\ UNCHANGED <<pc, collidable, ticks, presses, calc>>

HandleCollision == \E ev \in CollisionEvents(collidable) : HandleCollisionOf(ev)

\* The events are drained and game_logic returns.
GameLogicReturn ==
    /\ pc = "collisions"
    /\ pc' = "idle"
    /\ collidable' = {}
    /\ drained' = 0
    /\ UNCHANGED <<state, engine, ticks, presses, nr_events, calc>>

Next == GameLogic \/ HandleCollision \/ GameLogicReturn

Spec == Init /\ [][Next]_vars


(***************************************************************************)
(* The pure functions on their own: new_direction, new_position and        *)
(* Obstacle::do_move applied to inputs drawn from bounded sets.  calc      *)
(* holds the input and the result; the game does not run.                  *)
(***************************************************************************)
\* turns applied in a row
MaxTurns == 2

\* engine.window_dimensions: the model's window and the engine's default window
WindowSamples == {WindowDimensions, Vec2(R(1280), R(720))}

\* A coordinate within the half-extent: both edges, one step and half a step
\* inside each edge, and the middle.
CoordSamples(half) ==
    {RNeg(half), RAdd(RNeg(half), R(5)), RAdd(RNeg(half), R(PLAYER_MOVE_DISTANCE)), R(0),
     RSub(half, R(PLAYER_MOVE_DISTANCE)), RSub(half, R(5)), half}

PosSamples(window_dimensions) ==
    {Vec2(x, y) : x \in CoordSamples(RDiv(window_dimensions.x, R(2))),
                  y \in CoordSamples(RDiv(window_dimensions.y, R(2)))}

\* An obstacle's speed on one axis: lines 159-160 draw it from -(2/scale)..(2/scale),
\* which is within -10..10 for the smallest scale.
VelSamples == {R(-10), Rat(-11, 2), R(0), Rat(7, 3), Rat(19, 2)}

DirInputs ==
    {[fn |-> "new_direction", curr_dir |-> d, turns |-> <<>>, result |-> d] :
        d \in Direction}

PosInputs ==
    UNION {{[fn |-> "new_position", window_dimensions |-> w, pos |-> p, dir |-> d,
             speed |-> R(PLAYER_MOVE_DISTANCE), done |-> FALSE, result |-> p] :
                p \in PosSamples(w), d \in Direction} : w \in WindowSamples}

MoveInputs ==
    UNION {{[fn |-> "do_move", window_dimensions |-> w, translation |-> p,
             speed |-> Vec2(vx, vy), done |-> FALSE, result |-> p] :
                p \in PosSamples(w), vx \in VelSamples, vy \in VelSamples} :
           w \in WindowSamples}

\* Two obstacles about to bounce: their speeds, and their sprites at two
\* different places with scales within MIN_SCALE..MAX_SCALE.
BounceSpeeds == {Vec2(R(3), R(-1)), Vec2(R(-1), R(1)), Vec2(R(0), R(0)),
                 Vec2(Rat(-3, 2), R(2))}
BouncePlaces == {Vec2(R(-10), R(0)), Vec2(R(10), R(10)), Vec2(R(0), R(0)),
                 Vec2(R(45), R(-45))}
BounceScales == {Obstacle_MIN_SCALE, Rat(1, 2), R(1)}

BounceInputs ==
    {c \in {[fn |-> "bounce", self |-> [speed |-> v1], other |-> [speed |-> v2],
             self_sprite |-> [translation |-> p1, collision |-> TRUE, scale |-> m1],
             other_sprite |-> [translation |-> p2, collision |-> TRUE, scale |-> m2],
             done |-> FALSE, result |-> <<v1, v2>>] :
                v1 \in BounceSpeeds, v2 \in BounceSpeeds,
                p1 \in BouncePlaces, p2 \in BouncePlaces,
                m1 \in BounceScales, m2 \in BounceScales} :
        c.self_sprite.translation # c.other_sprite.translation}

InitPure ==
    /\ state = GameState_default
    /\ engine = Engine_new
    /\ pc = "idle"
    /\ collidable = {}
    /\ drained = 0
    /\ ticks = 0
    /\ presses = 0
    /\ nr_events = 0
    /\ calc \in DirInputs \cup PosInputs \cup MoveInputs \cup BounceInputs

\* result = new_direction(result, turn_left)
NewDirection ==
    /\ calc.fn = "new_direction"
    /\ Len(calc.turns) < MaxTurns
    /\ \E turn_left \in BOOLEAN :
          calc' = [calc EXCEPT !.result = new_direction(@, turn_left),
                               !.turns = Append(@, turn_left)]
    /\ UNCHANGED <<state, engine, pc, collidable, drained, ticks, presses, nr_events>>

\* result = new_position(&engine, pos, dir, speed)
NewPosition ==
    /\ calc.fn = "new_position"
    /\ ~calc.done
    /\ calc' = [calc EXCEPT !.done = TRUE,
                            !.result = new_position(calc.window_dimensions, calc.pos,
                                                    calc.dir, calc.speed)]
    /\ UNCHANGED <<state, engine, pc, collidable, drained, ticks, presses, nr_events>>

\* obstacle.do_move(engine): result is the sprite's new translation
DoMove ==
    /\ calc.fn = "do_move"
    /\ ~calc.done
    /\ calc' = [calc EXCEPT !.done = TRUE,
                            !.result = do_move([speed |-> calc.speed],
                                               calc.window_dimensions, calc.translation)]
    /\ UNCHANGED <<state, engine, pc, collidable, drained, ticks, presses, nr_events>>

\* this.bounce(other, this_sprite, other_sprite): result is <<this.speed, other.speed>>
Bounce ==
    /\ calc.fn = "bounce"
    /\ ~calc.done
    /\ calc' = [calc EXCEPT !.done = TRUE,
                            !.result = bounce(calc.self, calc.other,
                                              calc.self_sprite, calc.other_sprite)]
    /\ UNCHANGED <<state, engine, pc, collidable, drained, ticks, presses, nr_events>>

NextPure == NewDirection \/ NewPosition \/ DoMove \/ Bounce

SpecPure == InitPure /\ [][NextPure]_vars


(***************************************************************************)
(* The claims.                                                             *)
(***************************************************************************)

\* C1: in every reachable state every player's trail sequence holds at most
\* max_len labels.
C1_TrailWithinMaxLen ==
    \A p \in Players : Len(state.player[p].labels) <= state.player[p].max_len

\* C1 happens: a player has moved more often than its trail may hold segments,
\* so that a move has dropped the oldest one.
C1_Witness ==
    \E p \in Players :
        /\ state.player[p].serial > state.player[p].max_len
        /\ Len(state.player[p].labels) = state.player[p].max_len

\* C8: a left turn followed by a right turn gives the direction it started from.
C8_LeftThenRight ==
    (calc.fn = "new_direction" /\ calc.turns = <<TRUE, FALSE>>)
        => calc.result = calc.curr_dir

\* C8 happens: UP has been turned left, then right.
C8_Witness ==
    /\ calc.fn = "new_direction"
    /\ calc.curr_dir = "UP"
    /\ calc.turns = <<TRUE, FALSE>>
    /\ calc.result = "UP"

C10_WrapContainment ==
    LET half_x == RDiv(calc.window_dimensions.x, R(2))
        half_y == RDiv(calc.window_dimensions.y, R(2))
        wrapped(v, half) == IF RLt(half, v) THEN RNeg(half)
                            ELSE IF RLt(v, RNeg(half)) THEN half ELSE v
        within(v, half) == RLe(RAbs(v), half)
        dx == CASE calc.dir = "RIGHT" -> calc.speed
                [] calc.dir = "LEFT" -> RNeg(calc.speed)
                [] OTHER -> R(0)
        dy == CASE calc.dir = "UP" -> calc.speed
                [] calc.dir = "DOWN" -> RNeg(calc.speed)
                [] OTHER -> R(0)
    IN  /\ (/\ calc.fn = "new_position" /\ calc.done
            /\ within(calc.pos.x, half_x) /\ within(calc.pos.y, half_y)) =>
              /\ calc.result.x = wrapped(RAdd(calc.pos.x, dx), half_x)
              /\ calc.result.y = wrapped(RAdd(calc.pos.y, dy), half_y)
              /\ within(calc.result.x, half_x) /\ within(calc.result.y, half_y)
        /\ (/\ calc.fn = "do_move" /\ calc.done
            /\ within(calc.translation.x, half_x) /\ within(calc.translation.y, half_y)) =>
              /\ calc.result.x = wrapped(RAdd(calc.translation.x, calc.speed.x), half_x)
              /\ calc.result.y = wrapped(RAdd(calc.translation.y, calc.speed.y), half_y)
              /\ within(calc.result.x, half_x) /\ within(calc.result.y, half_y)

\* C10 happens: an obstacle near the right and the lower edge has moved right
\* and down, and is at the left and the upper edge.
C10_Witness ==
    /\ calc.fn = "do_move"
    /\ calc.done
    /\ calc.window_dimensions = WindowDimensions
    /\ calc.translation = Vec2(R(45), R(-45))
    /\ calc.speed = Vec2(Rat(19, 2), R(-10))
    /\ calc.result = Vec2(R(-50), R(50))


\* C2: a player's state changes only from WAITING to PLAYING, in the part of a
\* frame before the collision loop and with one of its keys just pressed, from
\* PLAYING to LOST, on a collision-start event that pairs its head with something
\* that is no pill, and from LOST to WAITING, when its countdown expires.
C2_LifecycleTransitions ==
    [][\A p \in Players :
         LET a == state.player[p].state
             b == state'.player[p].state
         IN  a # b =>
               \/ /\ a = "WAITING" /\ b = "PLAYING" /\ pc = "idle"
                  /\ \E delta \in DeltaSamples, keys \in KeyboardSamples, rng \in RngSamples :
                        /\ GameLogicWith(delta, keys, rng)
                        /\ just_pressed_any(keys, PLAYER_CONTROL[p])
               \/ /\ a = "PLAYING" /\ b = "LOST" /\ pc = "collisions"
                  /\ \E ev \in CollisionEvents(collidable) :
                        /\ HandleCollisionOf(ev)
                        /\ ev.state = "Begin"
                        /\ \/ ev.pair[1] = head_label(p) /\ ~starts_with(ev.pair[2], "pill")
                           \/ ev.pair[2] = head_label(p) /\ ~starts_with(ev.pair[1], "pill")
               \/ /\ a = "LOST" /\ b = "WAITING" /\ pc = "idle"
                  /\ \E delta \in DeltaSamples, keys \in KeyboardSamples, rng \in RngSamples :
                        /\ GameLogicWith(delta, keys, rng)
                        /\ state.player[p].loose_timeout.elapsed + delta
                               >= PLAYER_LOOSE_TIMEOUT]_vars

\* C3: a collision-start event that pairs the head of a PLAYING player with
\* anything but a pill leaves that player LOST, whichever side of the pair its
\* head is on (so both players of a head-to-head event), and a LOST player is
\* LOST for the rest of the frame's events.
C3_FatalCollision ==
    [][pc = "collisions" =>
         \A p \in Players :
            /\ state.player[p].state = "LOST" => state'.player[p].state = "LOST"
            /\ state.player[p].state = "PLAYING" =>
                 \A ev \in CollisionEvents(collidable) :
                    (/\ HandleCollisionOf(ev)
                     /\ ev.state = "Begin"
                     /\ \/ ev.pair[1] = head_label(p) /\ ~starts_with(ev.pair[2], "pill")
                        \/ ev.pair[2] = head_label(p) /\ ~starts_with(ev.pair[1], "pill"))
                    => state'.player[p].state = "LOST"]_vars

\* C4: a collision-start event that names the head of a LOST player leaves that
\* player's record as it was: state, max_len, trail, serial, direction, countdown.
C4_LostIdempotent ==
    [][pc = "collisions" =>
         \A p \in Players :
            state.player[p].state = "LOST" =>
               \A ev \in CollisionEvents(collidable) :
                  (/\ HandleCollisionOf(ev)
                   /\ ev.state = "Begin"
                   /\ head_label(p) \in {ev.pair[1], ev.pair[2]})
                  => state'.player[p] = state.player[p]]_vars

\* C5: a collision-start event that pairs the head of a PLAYING player with a
\* pill adds one to that player's max_len, removes that pill's sprite and no
\* other, and leaves the player's state, direction, serial and trail as they were.
C5_PillEaten ==
    [][pc = "collisions" =>
         \A p \in Players :
            state.player[p].state = "PLAYING" =>
               \A ev \in CollisionEvents(collidable) :
                  LET pill == IF ev.pair[1] = head_label(p) THEN ev.pair[2] ELSE ev.pair[1]
                  IN  (/\ HandleCollisionOf(ev)
                       /\ ev.state = "Begin"
                       /\ head_label(p) \in {ev.pair[1], ev.pair[2]}
                       /\ starts_with(pill, "pill"))
                      => /\ state'.player[p].max_len = state.player[p].max_len + 1
                         /\ engine'.sprites =
                               [l \in DOMAIN engine.sprites \ {pill} |-> engine.sprites[l]]
                         /\ state'.player[p].state = "PLAYING"
                         /\ state'.player[p].direction = state.player[p].direction
                         /\ state'.player[p].serial = state.player[p].serial
                         /\ state'.player[p].labels = state.player[p].labels]_vars

\* C5 happens: player 0 plays, the one event handled so far has paired its head
\* with pill 0, its max_len is one above the starting value and the pill is gone.
C5_Witness ==
    /\ pc = "collisions"
    /\ drained = 1
    /\ nr_events = 1
    /\ state.player[0].state = "PLAYING"
    /\ state.player[0].max_len = PLAYER_STARTING_MAX_LEN + 1
    /\ state.pill_idx = 1
    /\ pill_label(0) \notin DOMAIN engine.sprites


C7_Activation ==
    [][
    LET Waiting == {p \in Players : state.player[p].state = "WAITING"}
    IN     /\ pc = "collisions" => \A p \in Waiting : state'.player[p].state # "PLAYING"
           /\ pc = "idle" =>
                \A delta \in DeltaSamples, keys \in KeyboardSamples, rng \in RngSamples :
                   GameLogicWith(delta, keys, rng) =>
                      \A p \in Waiting :
                         IF keys.just_pressed \cap
                               {PLAYER_CONTROL[p][1], PLAYER_CONTROL[p][2]} # {}
                         THEN /\ state'.player[p].state = "PLAYING"
                              /\ head_label(p) \in DOMAIN engine'.sprites
                              /\ engine'.sprites[head_label(p)].translation =
                                    Vec2(R(p * 50), R(p * 50))
                              /\ engine'.sprites[head_label(p)].collision
                              /\ score_label(p) \notin DOMAIN engine'.texts
                              /\ state'.player[p].direction = state.player[p].direction
                         ELSE state'.player[p].state = "WAITING"
    ]_vars

\* C7 happens: player 0 has been activated a second time, in the fourth frame,
\* after it lost and its countdown put its score on display; the press has
\* removed the score, and the head is at the starting position.
C7_Witness ==
    /\ pc = "collisions"
    /\ ticks = 4
    /\ presses = 2
    /\ state.player[0].state = "PLAYING"
    /\ state.player[0].serial = 0
    /\ state.player[0].direction = "RIGHT"
    /\ head_label(0) \in DOMAIN engine.sprites
    /\ engine.sprites[head_label(0)].translation = Vec2(R(0), R(0))
    /\ engine.texts = EmptyMap
    /\ \A q \in Players \ {0} : state.player[q].state = "WAITING"


\* C11: Obstacle::bounce, for two obstacles at different places with positive
\* scales, leaves scale * speed summed over the two obstacles as it was, on
\* each axis, in exact arithmetic.
C11_MomentumConserved ==
    (/\ calc.fn = "bounce" /\ calc.done
     /\ calc.self_sprite.translation # calc.other_sprite.translation
     /\ RLt(R(0), calc.self_sprite.scale) /\ RLt(R(0), calc.other_sprite.scale)) =>
        LET m1 == calc.self_sprite.scale
            m2 == calc.other_sprite.scale
        IN  /\ RAdd(RMul(m1, calc.result[1].x), RMul(m2, calc.result[2].x))
                 = RAdd(RMul(m1, calc.self.speed.x), RMul(m2, calc.other.speed.x))
            /\ RAdd(RMul(m1, calc.result[1].y), RMul(m2, calc.result[2].y))
                 = RAdd(RMul(m1, calc.self.speed.y), RMul(m2, calc.other.speed.y))

\* C11 happens: a light obstacle at (-10, 0) moving at (3, -1) has bounced off
\* a heavy one at (10, 10) moving at (-1, 1), and both speeds have changed.
C11_Witness ==
    /\ calc.fn = "bounce"
    /\ calc.done
    /\ calc.self.speed = Vec2(R(3), R(-1))
    /\ calc.other.speed = Vec2(R(-1), R(1))
    /\ calc.self_sprite.translation = Vec2(R(-10), R(0))
    /\ calc.other_sprite.translation = Vec2(R(10), R(10))
    /\ calc.self_sprite.scale = Rat(1, 2)
    /\ calc.other_sprite.scale = R(1)
    /\ calc.result[1] # calc.self.speed
    /\ calc.result[2] # calc.other.speed


\* C12: between frames a PLAYING player's head sprite exists (sprites are
\* keyed by label, so there is one), and a WAITING player has an empty trail
\* sequence and no sprite with a trail label of its own.
C12_HeadAndTrail ==
    pc = "idle" =>
       \A p \in Players :
          /\ state.player[p].state = "PLAYING" => head_label(p) \in DOMAIN engine.sprites
          /\ state.player[p].state = "WAITING" =>
                /\ state.player[p].labels = <<>>
                /\ \A l \in DOMAIN engine.sprites :
                      ~(starts_with(l, "player-tail") /\ l[2] = p)

\* C12 happens: between frames player 0 plays, and player 1 is WAITING again
\* after it lost with one trail segment (its score of 10 points is on display).
C12_Witness ==
    /\ pc = "idle"
    /\ state.player[0].state = "PLAYING"
    /\ head_label(0) \in DOMAIN engine.sprites
    /\ state.player[1].state = "WAITING"
    /\ score_label(1) \in DOMAIN engine.texts
    /\ engine.texts[score_label(1)].value = <<"Player", 1, 10, "points">>

\* C17: between frames a LOST player's head sprite and the sprite of every
\* label of its trail exist, and a WAITING player has no head sprite.
C17_LostKeepsEntities ==
    pc = "idle" =>
       \A p \in Players :
          /\ state.player[p].state = "LOST" =>
                /\ head_label(p) \in DOMAIN engine.sprites
                /\ Range(state.player[p].labels) \subseteq DOMAIN engine.sprites
          /\ state.player[p].state = "WAITING" =>
                head_label(p) \notin DOMAIN engine.sprites

\* C20: between frames the sprites with a trail label of a player are those of
\* its trail sequence, whose labels are pairwise distinct and carry, front to
\* back, the serials serial-1, serial-2, ...
C20_TrailEntities ==
    pc = "idle" =>
       \A p \in Players :
          LET labels == state.player[p].labels
          IN  /\ {l \in DOMAIN engine.sprites : starts_with(l, "player-tail") /\ l[2] = p}
                    = Range(labels)
              /\ \A i, j \in DOMAIN labels : i # j => labels[i] # labels[j]
              /\ \A i \in DOMAIN labels :
                    labels[i] = <<"player-tail", p, state.player[p].serial - i>>

\* C20 happens: between frames a player's trail is full and its oldest segments
\* have been dropped.
C20_Witness ==
    /\ pc = "idle"
    /\ \E p \in Players :
          /\ state.player[p].serial > state.player[p].max_len
          /\ Len(state.player[p].labels) = state.player[p].max_len
          /\ <<"player-tail", p, 0>> \notin DOMAIN engine.sprites


\* C13: the part of a frame in which a LOST player's countdown expires puts up
\* that player's score text with ten points for each label its trail holds then,
\* and removes its head sprite and every sprite with a trail label of its own.
C13_ScoreAndRemoval ==
    [][
    LET Lost == {p \in Players : state.player[p].state = "LOST"}
    IN  (pc = "idle" /\ Lost # {}) =>
           \A delta \in DeltaSamples, keys \in KeyboardSamples, rng \in RngSamples :
              GameLogicWith(delta, keys, rng) =>
                 \A p \in Lost :
                    state.player[p].loose_timeout.elapsed + delta >= PLAYER_LOOSE_TIMEOUT =>
                       /\ score_label(p) \in DOMAIN engine'.texts
                       /\ engine'.texts[score_label(p)].value =
                             <<"Player", p, Len(state.player[p].labels) * 10, "points">>
                       /\ head_label(p) \notin DOMAIN engine'.sprites
                       /\ \A l \in DOMAIN engine'.sprites :
                             ~(starts_with(l, "player-tail") /\ l[2] = p)
    ]_vars

\* C13 happens: player 0 lost with one trail segment; its countdown has expired
\* in this frame, 10 points are on display and its head and segment are gone.
C13_Witness ==
    /\ pc = "collisions"
    /\ drained = 0
    /\ ticks = 3
    /\ state.player[0].state = "WAITING"
    /\ score_label(0) \in DOMAIN engine.texts
    /\ engine.texts[score_label(0)].value = <<"Player", 0, 10, "points">>
    /\ head_label(0) \notin DOMAIN engine.sprites
    /\ <<"player-tail", 0, 0>> \notin DOMAIN engine.sprites


\* C14: the parts of a frame run in the order obstacle move, spawns, player
\* move, input, elimination, collisions.  In the part before the collision loop:
\* a PLAYING player's head moves, when the move timer fires, one step in the
\* direction it had before the frame's keys, and stays otherwise; a WAITING
\* player activated by a key has its head at the starting position and an empty
\* trail; a LOST player whose countdown expires is WAITING, also with its key
\* just pressed; an obstacle spawned in the frame is at the place drawn for it.
\* While the events are handled no head moves, no trail and no countdown
\* changes, and a player that becomes LOST has nothing elapsed of its countdown.
C14_TickOrder ==
    [][
    /\ pc = "collisions" =>
          \A p \in Players :
             /\ state'.player[p].labels = state.player[p].labels
             /\ state'.player[p].loose_timeout = state.player[p].loose_timeout
             /\ (state.player[p].state # "LOST" /\ state'.player[p].state = "LOST") =>
                   state'.player[p].loose_timeout.elapsed = 0
             /\ (/\ head_label(p) \in DOMAIN engine.sprites
                 /\ head_label(p) \in DOMAIN engine'.sprites) =>
                   engine'.sprites[head_label(p)] = engine.sprites[head_label(p)]
    /\ pc = "idle" =>
          \A delta \in DeltaSamples, keys \in KeyboardSamples, rng \in RngSamples :
             GameLogicWith(delta, keys, rng) =>
                /\ \A p \in Players :
                      LET old == state.player[p]
                          new == state'.player[p]
                          own_key == keys.just_pressed \cap
                                        {PLAYER_CONTROL[p][1], PLAYER_CONTROL[p][2]} # {}
                          moves == /\ state.player_move_timer.elapsed < PLAYER_MOVE_TIMER_START
                                   /\ state.player_move_timer.elapsed + delta
                                         >= PLAYER_MOVE_TIMER_START
                      IN  /\ old.state = "PLAYING" =>
                                engine'.sprites[head_label(p)].translation =
                                   IF moves
                                   THEN new_position(engine.window_dimensions,
                                                     engine.sprites[head_label(p)].translation,
                                                     old.direction, R(PLAYER_MOVE_DISTANCE))
                                   ELSE engine.sprites[head_label(p)].translation
                          /\ (old.state = "WAITING" /\ own_key) =>
                                /\ new.state = "PLAYING"
                                /\ engine'.sprites[head_label(p)].translation =
                                      Vec2(R(p * 50), R(p * 50))
                                /\ new.labels = <<>>
                          /\ (/\ old.state = "LOST"
                              /\ old.loose_timeout.elapsed + delta >= PLAYER_LOOSE_TIMEOUT) =>
                                new.state = "WAITING"
                /\ (/\ state.obstacle_next_timer.elapsed < state.obstacle_next_timer.duration
                    /\ state.obstacle_next_timer.elapsed + delta
                          >= state.obstacle_next_timer.duration) =>
                      /\ Len(state'.obstacles) = Len(state.obstacles) + 1
                      /\ engine'.sprites[<<"obstacle", state.obstacle_serial>>].translation
                            = rng.obstacle.translation
    ]_vars

\* C14 happens: in the second frame player 0, heading RIGHT from its starting
\* position, has moved and its left key was just pressed: the head has gone one
\* step to the right, and the direction is UP.
C14_Witness ==
    /\ pc = "collisions"
    /\ ticks = 2
    /\ state.player[0].state = "PLAYING"
    /\ state.player[0].direction = "UP"
    /\ state.player[0].serial = 1
    /\ engine.sprites[head_label(0)].translation = Vec2(R(10), R(0))


\* C15: in a frame where the move timer fires, every PLAYING player's serial
\* grows by exactly 1, a segment labelled with the player's index and the old
\* serial is at the front of the trail with its entity where the head was, the
\* trail is as long as min(old length + 1, max_len), the older segments keep
\* their order, and the oldest segment and its entity are removed exactly when
\* the length would exceed max_len.  The move leaves a WAITING player's trail
\* and serial, and a LOST player's head, trail and serial as they were (a LOST
\* player whose countdown expires in the frame is eliminated, not moved).
C15_MoveStep ==
    [][
    pc = "idle" =>
       \A delta \in DeltaSamples, keys \in KeyboardSamples, rng \in RngSamples :
          (GameLogicWith(delta, keys, rng)
             /\ just_finished(state.player_move_timer, delta)) =>
             \A p \in Players :
                LET old == state.player[p]
                    new == state'.player[p]
                    newest == <<"player-tail", p, old.serial>>
                    grown == <<newest>> \o old.labels
                    length == IF Len(old.labels) + 1 <= old.max_len
                              THEN Len(old.labels) + 1 ELSE old.max_len
                IN  /\ old.state = "PLAYING" =>
                          /\ new.serial = old.serial + 1
                          /\ Len(new.labels) = length
                          /\ new.labels = SubSeq(grown, 1, length)
                          /\ newest \in DOMAIN engine'.sprites
                          /\ engine'.sprites[newest].translation =
                                engine.sprites[head_label(p)].translation
                          /\ \A i \in 1..Len(old.labels) :
                                old.labels[i] \in DOMAIN engine'.sprites
                                   <=> (i < Len(old.labels)
                                           \/ Len(old.labels) + 1 <= old.max_len)
                    /\ old.state = "WAITING" =>
                          /\ new.labels = old.labels
                          /\ new.serial = old.serial
                          /\ keys.just_pressed \cap
                                {PLAYER_CONTROL[p][1], PLAYER_CONTROL[p][2]} = {} =>
                                head_label(p) \notin DOMAIN engine'.sprites
                    /\ (/\ old.state = "LOST"
                        /\ old.loose_timeout.elapsed + delta < PLAYER_LOOSE_TIMEOUT) =>
                          /\ new.labels = old.labels
                          /\ new.serial = old.serial
                          /\ head_label(p) \in DOMAIN engine.sprites =>
                                /\ head_label(p) \in DOMAIN engine'.sprites
                                /\ engine'.sprites[head_label(p)] =
                                      engine.sprites[head_label(p)]
                          /\ head_label(p) \notin DOMAIN engine.sprites =>
                                head_label(p) \notin DOMAIN engine'.sprites
    ]_vars

\* C15 happens: player 0 has moved five times with max_len 4: its trail holds
\* the segments 4, 3, 2, 1, the newest where the head was before the fifth
\* move, and the segment 0 and its entity are gone.
C15_Witness ==
    /\ pc = "collisions"
    /\ state.player[0].state = "PLAYING"
    /\ state.player[0].serial = 5
    /\ state.player[0].max_len = 4
    /\ Len(state.player[0].labels) = 4
    /\ engine.sprites[head_label(0)].translation = Vec2(R(50), R(0))
    /\ engine.sprites[<<"player-tail", 0, 4>>].translation = Vec2(R(40), R(0))
    /\ <<"player-tail", 0, 0>> \notin DOMAIN engine.sprites
    /\ \E p \in Players : state.player[p].state = "LOST"


\* C16: every pill is placed within the window: its x is at most half the
\* window's width from the centre, and its y at most half the window's height.
C16_PillsInBounds ==
    \A l \in DOMAIN engine.sprites :
       starts_with(l, "pill") =>
          /\ RLe(RAbs(engine.sprites[l].translation.x),
                 RDiv(engine.window_dimensions.x, R(2)))
          /\ RLe(RAbs(engine.sprites[l].translation.y),
                 RDiv(engine.window_dimensions.y, R(2)))


\* C18: a Begin event for two obstacles changes nothing but the speeds of those
\* two: every sprite (place and scale), every other obstacle, every player and
\* every timer is as before; and no step of the game takes an obstacle, or its
\* sprite, away.
C18_BounceOnlySpeeds ==
    [][
    /\ pc = "collisions" =>
          \A ev \in CollisionEvents(collidable) :
             (/\ HandleCollisionOf(ev)
              /\ ev.state = "Begin"
              /\ ev.pair[1][1] = "obstacle"
              /\ ev.pair[2][1] = "obstacle") =>
                /\ engine' = engine
                /\ state' = [state EXCEPT !.obstacles = state'.obstacles]
                /\ Len(state'.obstacles) = Len(state.obstacles)
                /\ \A i \in DOMAIN state.obstacles :
                      /\ state'.obstacles[i] =
                            [state.obstacles[i] EXCEPT !.speed = state'.obstacles[i].speed]
                      /\ state.obstacles[i].label \notin {ev.pair[1], ev.pair[2]} =>
                            state'.obstacles[i] = state.obstacles[i]
    /\ Len(state'.obstacles) >= Len(state.obstacles)
    /\ \A i \in DOMAIN state.obstacles :
          /\ state'.obstacles[i].label = state.obstacles[i].label
          /\ state.obstacles[i].label \in DOMAIN engine'.sprites
    ]_vars

\* C18 happens: a Begin event for the two obstacles has been handled: each has
\* a speed that was not drawn for it, and each sprite has the scale drawn for it.
C18_Witness ==
    /\ pc = "collisions"
    /\ drained = 1
    /\ Len(state.obstacles) = 2
    /\ \A i \in 1..2 :
          /\ \A r \in RngSamples : state.obstacles[i].speed # r.obstacle.speed
          /\ \E r \in RngSamples :
                engine.sprites[state.obstacles[i].label].scale = r.obstacle.scale

\* C19: an End event, and a Begin event that names no head and not two
\* obstacles, is ignored: the game state and the engine are as before.
C19_IgnoredEvents ==
    [][
    pc = "collisions" =>
       \A ev \in CollisionEvents(collidable) :
          (/\ HandleCollisionOf(ev)
           /\ \/ ev.state = "End"
              \/ /\ ev.pair[1][1] # "player-head"
                 /\ ev.pair[2][1] # "player-head"
                 /\ ~(ev.pair[1][1] = "obstacle" /\ ev.pair[2][1] = "obstacle")) =>
             /\ state' = state
             /\ engine' = engine
    ]_vars

\* C19 happens: one event of the frame has been handled, with a head, a pill
\* and the only obstacle among the sprites it could name, and it left every
\* player PLAYING or WAITING with the starting max_len and the pill in place.
C19_Witness ==
    /\ pc = "collisions"
    /\ drained = 1
    /\ nr_events = 1
    /\ head_label(0) \in collidable
    /\ \E l \in collidable : l[1] = "pill"
    /\ \E l \in collidable : l[1] = "obstacle"
    /\ Len(state.obstacles) = 1
    /\ collidable \subseteq DOMAIN engine.sprites
    /\ \A p \in Players :
          /\ state.player[p].state # "LOST"
          /\ state.player[p].max_len = PLAYER_STARTING_MAX_LEN

=============================================================================
